---- MODULE Spec2Model ----
(***************************************************************************)
(* Model of the orchestration in MALDER/AlderMain.cpp (function main):     *)
(* the configuration checks, the choice of the form of ALDER to run, and   *)
(* the 1-ref, 2-ref and 3+-ref decision trees that sequence                *)
(* Alder::find_ld_corr_stops, Alder::run, the 1-ref pre-tests,             *)
(* Alder::compute_mult_hyp_corr and ExpFitALD::run_admixture_test.         *)
(*                                                                         *)
(* main is one sequential program; pc is its position.  The inputs         *)
(* (parameters and the processed data) are drawn in Init, the results of   *)
(* the engine calls (fit start distances, fit lists, test outcomes) are    *)
(* drawn when the call is made.  An ExpFitALD is opaque to main: a fit     *)
(* list is modelled by its length, and a fit by the outcome of its         *)
(* significance test.  fatalx terminates the process (pc = "aborted").     *)
(* Reading an element of an empty fit list is undefined behaviour: the     *)
(* model lets it either crash (pc = "crashed") or go on with a garbage     *)
(* value, and records the read in unsafe_reads.                            *)
(***************************************************************************)
EXTENDS Integers, Sequences, FiniteSets, TLC

\* ------------------------------- bounds -------------------------------- \*

MaxRefs == 3      \* most reference populations with genotype data
MaxFits == 1      \* most fits (start offsets) one Alder::run returns
MaxIndivs == 4    \* number of mixed individuals

\* -------------------------- program constants -------------------------- \*

MinOneRefMincount == 4
MinJackknifeChroms == 2

\* Fit start distances.  main only takes maxima of them and compares them
\* with INFINITY, which is larger than every finite distance; the finite
\* distances are represented by the 0.5 cM minimum, one unit here.
MinFitStart == 1
INFINITY == MinFitStart + 1

NoCorrection == 1   \* the factor 1.0 passed by the 2-ref test

FatalMincount == "mincount must be <= num mixed indivs"
FatalNoRefs == "no data from ref populations"
FatalOneRefMincount == "mincount must be >= 4 to compute single-reference LD (polyache)"
FatalChroms == "cannot test for admixture: need >= 2 chroms to jackknife"

FinishedChroms == "finished: cannot test for admixture (need >= 2 chroms to jackknife)"
FinishedNoGeno == "finished: cannot test for admixture (need reference genotypes)"

VARIABLES
  pc,                   \* position in main
  mincount,             \* pars.mincount
  num_mixed_indivs,     \* set by process_indivs
  weightname,           \* pars.weightname != NULL
  num_ref_freqs,        \* ref_freqs.size()
  num_chroms_used,      \* alder.get_num_chroms_used()
  num_alder_refs,       \* -1, 1 or 2
  ref_inds,             \* sequence of reference indices
  weights,              \* where the weight vector comes from
  fit_starts,           \* result of find_ld_corr_stops, indexed from 0
  fits_all_starts,      \* length of the fit list of the 1-ref/2-ref curve
  fit_test_ind,         \* its canonical index
  decay_sig,            \* the canonical fit of that curve is significant
  fits_all_starts_refs, \* per reference: length of its 1-ref fit list
  fit_test_ind_refs,    \* per reference: canonical index
  has_oneref_curve,     \* per reference: eligibility
  mult_hyp_corr,        \* [elig, factor] once computed
  r, r1, r2,            \* loop counters
  runs,                 \* calls of Alder::run so far
  tests,                \* calls of run_admixture_test so far
  mixfrac,              \* mix_frac_bound has been computed and printed
  ld_corr_called,       \* find_ld_corr_stops has been called
  unsafe_reads,         \* reads of a canonical fit that does not exist
  fatal,                \* message of fatalx
  finished              \* "finished: cannot test" message, if printed

vars == << pc, mincount, num_mixed_indivs, weightname, num_ref_freqs,
           num_chroms_used, num_alder_refs, ref_inds, weights, fit_starts,
           fits_all_starts, fit_test_ind, decay_sig, fits_all_starts_refs,
           fit_test_ind_refs, has_oneref_curve, mult_hyp_corr, r, r1, r2,
           runs, tests, mixfrac, ld_corr_called, unsafe_reads, fatal, finished >>

inputs == << mincount, num_mixed_indivs, weightname, num_ref_freqs, num_chroms_used >>

Refs == 0 .. (num_ref_freqs - 1)

\* ------------------------------ helpers -------------------------------- \*

NoWeights == [kind |-> "none", a |-> -1, b |-> -1]
ExternalWeights == [kind |-> "external", a |-> -1, b |-> -1]
RefFreqs(ref) == [kind |-> "freq", a |-> ref, b |-> -1]

subtract_freqs(ra, rb) == [kind |-> "diff", a |-> ra, b |-> rb]

Max2(x, y) == IF x >= y THEN x ELSE y

max_element(f) == CHOOSE m \in {f[i] : i \in DOMAIN f} : \A i \in DOMAIN f : f[i] <= m

\* The index is within the bounds of a list of length n.
InBounds(n, ind) == 0 <= ind /\ ind < n

\* Number of unordered pairs among the references an eligibility vector marks.
NumPairs(elig) ==
  LET k == Cardinality({i \in DOMAIN elig : elig[i]}) IN (k * (k - 1)) \div 2

\* --------------------------- engine results ---------------------------- \*

\* Value of an int that was never assigned.
Garbage == -1

\* Alder::run: a list of up to MaxFits fits, possibly empty (no usable fit),
\* and the canonical index, which it sets only when there is a fit
\* (ind0 is what the caller's variable held before the call).
RunResults(ind0) ==
  {[n |-> 0, ind |-> ind0]} \cup
  UNION {{[n |-> n, ind |-> i] : i \in 0 .. (n - 1)} : n \in 1 .. MaxFits}

\* One call of Alder::run as main makes it.
RunCall(nrefs, refs, w, start) ==
  [num_refs |-> nrefs, ref_inds |-> refs, weights |-> w, fit_start |-> start]

\* One call of ExpFitALD::run_admixture_test as main makes it.
TestCall(ra, rb, flag, corr) ==
  [r1 |-> ra, r2 |-> rb, no_correction |-> flag, mult_hyp_corr |-> corr]

\* Alder::find_ld_corr_stops: one start distance per reference, INFINITY
\* when the correlated LD of the reference extends past the ceiling; with
\* no reference genotypes (external weights only) one finite default.
FitStartResults ==
  IF num_ref_freqs = 0
    THEN [{0} -> {MinFitStart}]
    ELSE [Refs -> {MinFitStart, INFINITY}]

\* Alder::compute_mult_hyp_corr: a factor that scales with the number of
\* pairs of the references marked in the vector it is given.
compute_mult_hyp_corr(elig) == [elig |-> elig, factor |-> NumPairs(elig)]

\* ------------------------------- Init ---------------------------------- \*

Init ==
  /\ pc = "check_mincount"
  /\ mincount \in {MinOneRefMincount - 1, MinOneRefMincount, MaxIndivs + 1}
  /\ num_mixed_indivs = MaxIndivs
  /\ weightname \in BOOLEAN
  /\ num_ref_freqs \in 0 .. MaxRefs
  /\ num_chroms_used \in (MinJackknifeChroms - 1) .. MinJackknifeChroms
  /\ num_alder_refs = -1
  /\ ref_inds = << >>
  /\ weights = NoWeights
  /\ fit_starts = << >>
  /\ fits_all_starts = 0
  /\ fit_test_ind = 0
  /\ decay_sig = FALSE
  /\ fits_all_starts_refs = << >>
  /\ fit_test_ind_refs = << >>
  /\ has_oneref_curve = << >>
  /\ mult_hyp_corr = [elig |-> << >>, factor |-> 0]
  /\ r = 0
  /\ r1 = 0
  /\ r2 = 0
  /\ runs = << >>
  /\ tests = << >>
  /\ mixfrac = FALSE
  /\ ld_corr_called = FALSE
  /\ unsafe_reads = {}
  /\ fatal = ""
  /\ finished = ""

\* ------------------------ configuration checks ------------------------- \*

\* CheckMincount without the fatalx of line 123.
CheckMincountNoAbort ==
  /\ pc = "check_mincount"
  /\ pc' = "set_weights"
  /\ UNCHANGED << inputs, num_alder_refs, ref_inds, weights, fit_starts,
                  fits_all_starts, fit_test_ind, decay_sig, fits_all_starts_refs,
                  fit_test_ind_refs, has_oneref_curve, mult_hyp_corr, r, r1, r2,
                  runs, tests, mixfrac, ld_corr_called, unsafe_reads, fatal,
                  finished >>

\* Line 123: mincount against the number of mixed individuals.
CheckMincount ==
  /\ pc = "check_mincount"
  /\ IF mincount > num_mixed_indivs
       THEN /\ pc' = "aborted"
            /\ fatal' = FatalMincount
       ELSE /\ pc' = "set_weights"
            /\ UNCHANGED fatal
  /\ UNCHANGED << inputs, num_alder_refs, ref_inds, weights, fit_starts,
                  fits_all_starts, fit_test_ind, decay_sig, fits_all_starts_refs,
                  fit_test_ind_refs, has_oneref_curve, mult_hyp_corr, r, r1, r2,
                  runs, tests, mixfrac, ld_corr_called, unsafe_reads, finished >>

\* Lines 141-175: determine the number of refs and set the weights.
SetWeights ==
  /\ pc = "set_weights"
  /\ IF weightname
       THEN /\ weights' = ExternalWeights
            /\ num_alder_refs' = 2
            /\ pc' = "find_ld_corr_stops"
            /\ UNCHANGED << ref_inds, fatal >>
       ELSE IF num_ref_freqs = 0
         THEN /\ pc' = "aborted"
              /\ fatal' = FatalNoRefs
              /\ UNCHANGED << weights, num_alder_refs, ref_inds >>
         ELSE IF num_ref_freqs = 1
           THEN IF mincount < MinOneRefMincount
                  THEN /\ pc' = "aborted"
                       /\ fatal' = FatalOneRefMincount
                       /\ UNCHANGED << weights, num_alder_refs, ref_inds >>
                  ELSE /\ weights' = RefFreqs(0)
                       /\ num_alder_refs' = 1
                       /\ ref_inds' = << 0 >>
                       /\ pc' = "find_ld_corr_stops"
                       /\ UNCHANGED fatal
           ELSE IF num_ref_freqs = 2
             THEN /\ weights' = subtract_freqs(0, 1)
                  /\ num_alder_refs' = 2
                  /\ ref_inds' = << 0, 1 >>
                  /\ pc' = "find_ld_corr_stops"
                  /\ UNCHANGED fatal
             ELSE /\ pc' = "find_ld_corr_stops"
                  /\ UNCHANGED << weights, num_alder_refs, ref_inds, fatal >>
  /\ UNCHANGED << inputs, fit_starts, fits_all_starts, fit_test_ind, decay_sig,
                  fits_all_starts_refs, fit_test_ind_refs, has_oneref_curve,
                  mult_hyp_corr, r, r1, r2, runs, tests, mixfrac, ld_corr_called,
                  unsafe_reads, finished >>

\* Line 202: the 1-ref and 2-ref cases, which include the external-weights
\* case of num_ref_freqs = 0; otherwise the multiple-ref case (line 288).
OneOrTwoRefCaseShifted == num_ref_freqs < 2

OneOrTwoRefCase == num_ref_freqs <= 2

\* Lines 197-202: find the extent of LD correlation, then branch on the
\* number of references with genotype data.
FindLdCorrStops ==
  /\ pc = "find_ld_corr_stops"
  /\ fit_starts' \in FitStartResults
  /\ ld_corr_called' = TRUE
  /\ pc' = IF OneOrTwoRefCase THEN "run_curve" ELSE "multi_ref"
  /\ UNCHANGED << inputs, num_alder_refs, ref_inds, weights, fits_all_starts,
                  fit_test_ind, decay_sig, fits_all_starts_refs, fit_test_ind_refs,
                  has_oneref_curve, mult_hyp_corr, r, r1, r2, runs, tests, mixfrac,
                  unsafe_reads, fatal, finished >>

\* ----------------------- 1-ref and 2-ref cases -------------------------- \*

\* What an action leaves alone in the multiple-ref part of the state.
multi_vars == << has_oneref_curve, mult_hyp_corr, r1, r2 >>

\* Lines 204-222 and the branch at 226/277: compute the weighted LD curve
\* (1-ref or 2-ref as appropriate) from the largest fit start distance.
RunCurve ==
  /\ pc = "run_curve"
  /\ \E res \in RunResults(0), sig \in BOOLEAN :
       /\ res.n = 0 => ~sig
       /\ fits_all_starts' = res.n
       /\ fit_test_ind' = res.ind
       /\ decay_sig' = sig
  /\ runs' = Append(runs, RunCall(num_alder_refs, ref_inds, weights,
                                  max_element(fit_starts)))
  /\ pc' = IF num_alder_refs = 2 THEN "admix_check" ELSE "mix_frac"
  /\ UNCHANGED << inputs, num_alder_refs, ref_inds, weights, fit_starts,
                  fits_all_starts_refs, fit_test_ind_refs, multi_vars, r, tests,
                  mixfrac, ld_corr_called, unsafe_reads, fatal, finished >>

\* Lines 226-239: 2-ref case, check if the test for admixture can be run.
AdmixCheck ==
  /\ pc = "admix_check"
  /\ IF num_chroms_used < MinJackknifeChroms
       THEN /\ finished' = FinishedChroms
            /\ pc' = "done"
            /\ UNCHANGED << fits_all_starts_refs, fit_test_ind_refs, r >>
       ELSE IF ref_inds = << >>
         THEN /\ finished' = FinishedNoGeno
              /\ pc' = "done"
              /\ UNCHANGED << fits_all_starts_refs, fit_test_ind_refs, r >>
         ELSE /\ fits_all_starts_refs' = [i \in 0 .. 1 |-> 0]
              /\ fit_test_ind_refs' = [i \in 0 .. 1 |-> Garbage]
              /\ r' = 0
              /\ pc' = "ref_runs"
              /\ UNCHANGED finished
  /\ UNCHANGED << inputs, num_alder_refs, ref_inds, weights, fit_starts,
                  fits_all_starts, fit_test_ind, decay_sig, multi_vars, runs,
                  tests, mixfrac, ld_corr_called, unsafe_reads, fatal >>

\* Lines 240-249, one iteration: compute and fit the 1-ref curve of
\* reference r, starting from its own LD correlation cutoff.
RefRun ==
  /\ pc = "ref_runs"
  /\ r < 2
  /\ \E res \in RunResults(fit_test_ind_refs[r]) :
       /\ fits_all_starts_refs' = [fits_all_starts_refs EXCEPT ![r] = res.n]
       /\ fit_test_ind_refs' = [fit_test_ind_refs EXCEPT ![r] = res.ind]
  /\ runs' = Append(runs, RunCall(1, << r >>, RefFreqs(r), fit_starts[r]))
  /\ r' = r + 1
  /\ pc' = IF r + 1 < 2 THEN "ref_runs" ELSE "compare"
  /\ UNCHANGED << inputs, num_alder_refs, ref_inds, weights, fit_starts,
                  fits_all_starts, fit_test_ind, decay_sig, multi_vars, tests,
                  mixfrac, ld_corr_called, unsafe_reads, fatal, finished >>

\* Lines 256-267: print the differences between the 2-ref fits and the 1-ref
\* fits of both references, for every index of the 2-ref list.
CompareCurves ==
  /\ pc = "compare"
  /\ LET short == \E i \in 0 .. 1 : fits_all_starts_refs[i] < fits_all_starts
     IN  IF short
           THEN /\ unsafe_reads' = unsafe_reads \cup {"print_fit_diff"}
                /\ pc' \in {"admix_test", "crashed"}
           ELSE /\ pc' = "admix_test"
                /\ UNCHANGED unsafe_reads
  /\ UNCHANGED << inputs, num_alder_refs, ref_inds, weights, fit_starts,
                  fits_all_starts, fit_test_ind, decay_sig, fits_all_starts_refs,
                  fit_test_ind_refs, multi_vars, r, runs, tests, mixfrac,
                  ld_corr_called, fatal, finished >>

\* The canonical fits run_admixture_test is given all exist.
CanonicalFitsExist(n, ind, ra, rb) ==
  /\ InBounds(n, ind)
  /\ InBounds(fits_all_starts_refs[ra], fit_test_ind_refs[ra])
  /\ InBounds(fits_all_starts_refs[rb], fit_test_ind_refs[rb])

\* Lines 269-274: the test for admixture of the 2-ref case, with no
\* multiple-hypothesis correction.
RunAdmixtureTest ==
  /\ pc = "admix_test"
  /\ IF CanonicalFitsExist(fits_all_starts, fit_test_ind, 0, 1)
       THEN /\ tests' = Append(tests, TestCall(0, 1, TRUE, NoCorrection))
            /\ pc' = "done"
            /\ UNCHANGED unsafe_reads
       ELSE /\ unsafe_reads' = unsafe_reads \cup {"run_admixture_test"}
            /\ \/ /\ pc' = "crashed"
                  /\ UNCHANGED tests
               \/ /\ pc' = "done"
                  /\ tests' = Append(tests, TestCall(0, 1, TRUE, NoCorrection))
  /\ UNCHANGED << inputs, num_alder_refs, ref_inds, weights, fit_starts,
                  fits_all_starts, fit_test_ind, decay_sig, fits_all_starts_refs,
                  fit_test_ind_refs, multi_vars, r, runs, mixfrac,
                  ld_corr_called, fatal, finished >>

\* MixFracBound behind a significance test of the canonical fit.
MixFracBoundIfSignificant ==
  /\ pc = "mix_frac"
  /\ mixfrac' = decay_sig
  /\ pc' = "done"
  /\ UNCHANGED << inputs, num_alder_refs, ref_inds, weights, fit_starts,
                  fits_all_starts, fit_test_ind, decay_sig, fits_all_starts_refs,
                  fit_test_ind_refs, multi_vars, r, runs, tests,
                  ld_corr_called, unsafe_reads, fatal, finished >>

\* Lines 277-283: 1-ref case, compute the mixture fraction bound from the
\* canonical fit.
MixFracBound ==
  /\ pc = "mix_frac"
  /\ IF InBounds(fits_all_starts, fit_test_ind)
       THEN /\ mixfrac' = TRUE
            /\ pc' = "done"
            /\ UNCHANGED unsafe_reads
       ELSE /\ unsafe_reads' = unsafe_reads \cup {"mix_frac_bound"}
            /\ \/ /\ pc' = "crashed"
                  /\ UNCHANGED mixfrac
               \/ /\ pc' = "done"
                  /\ mixfrac' = TRUE
  /\ UNCHANGED << inputs, num_alder_refs, ref_inds, weights, fit_starts,
                  fits_all_starts, fit_test_ind, decay_sig, fits_all_starts_refs,
                  fit_test_ind_refs, multi_vars, r, runs, tests,
                  ld_corr_called, fatal, finished >>

\* ---------------------------- >=3-ref case ----------------------------- \*

\* Lines 288-301: the multiple-ref case needs to be able to jackknife.
MultiRef ==
  /\ pc = "multi_ref"
  /\ IF num_chroms_used < MinJackknifeChroms
       THEN /\ pc' = "aborted"
            /\ fatal' = FatalChroms
            /\ UNCHANGED << has_oneref_curve, fits_all_starts_refs,
                            fit_test_ind_refs, r >>
       ELSE /\ has_oneref_curve' = [i \in Refs |-> TRUE]
            /\ fits_all_starts_refs' = [i \in Refs |-> 0]
            /\ fit_test_ind_refs' = [i \in Refs |-> Garbage]
            /\ r' = 0
            /\ pc' = "pre_tests"
            /\ UNCHANGED fatal
  /\ UNCHANGED << inputs, num_alder_refs, ref_inds, weights, fit_starts,
                  fits_all_starts, fit_test_ind, decay_sig, mult_hyp_corr, r1, r2,
                  runs, tests, mixfrac, ld_corr_called, unsafe_reads, finished >>

\* Lines 302-306, one iteration: a reference with long-range LD fails
\* without a pre-test.
PreTestSkip ==
  /\ pc = "pre_tests"
  /\ r < num_ref_freqs
  /\ fit_starts[r] = INFINITY
  /\ has_oneref_curve' = [has_oneref_curve EXCEPT ![r] = FALSE]
  /\ r' = r + 1
  /\ UNCHANGED << pc, inputs, num_alder_refs, ref_inds, weights, fit_starts,
                  fits_all_starts, fit_test_ind, decay_sig, fits_all_starts_refs,
                  fit_test_ind_refs, mult_hyp_corr, r1, r2, runs, tests, mixfrac,
                  ld_corr_called, unsafe_reads, fatal, finished >>

\* Lines 302-319, one iteration: the 1-ref curve of reference r and the test
\* of its canonical fit (test_and_print_oneref_curve).
PreTestRun ==
  /\ pc = "pre_tests"
  /\ r < num_ref_freqs
  /\ fit_starts[r] # INFINITY
  /\ runs' = Append(runs, RunCall(1, << r >>, RefFreqs(r), fit_starts[r]))
  /\ \E res \in RunResults(fit_test_ind_refs[r]), curve \in BOOLEAN :
       /\ fits_all_starts_refs' = [fits_all_starts_refs EXCEPT ![r] = res.n]
       /\ fit_test_ind_refs' = [fit_test_ind_refs EXCEPT ![r] = res.ind]
       /\ IF InBounds(res.n, res.ind)
            THEN /\ has_oneref_curve' = [has_oneref_curve EXCEPT ![r] = curve]
                 /\ r' = r + 1
                 /\ UNCHANGED << pc, unsafe_reads >>
            ELSE /\ unsafe_reads' = unsafe_reads \cup {"test_and_print_oneref_curve"}
                 /\ \/ /\ pc' = "crashed"
                       /\ ~curve
                       /\ UNCHANGED << has_oneref_curve, r >>
                    \/ /\ has_oneref_curve' = [has_oneref_curve EXCEPT ![r] = curve]
                       /\ r' = r + 1
                       /\ UNCHANGED pc
  /\ UNCHANGED << inputs, num_alder_refs, ref_inds, weights, fit_starts,
                  fits_all_starts, fit_test_ind, decay_sig, mult_hyp_corr, r1, r2,
                  tests, mixfrac, ld_corr_called, fatal, finished >>

\* Lines 321-338: the summary of the pre-tests, which reads the canonical
\* fit of every reference that was pre-tested, and the multiple-hypothesis
\* correction.
Summary ==
  /\ pc = "pre_tests"
  /\ r = num_ref_freqs
  /\ LET absent == \E i \in Refs :
                     /\ fit_starts[i] # INFINITY
                     /\ ~InBounds(fits_all_starts_refs[i], fit_test_ind_refs[i])
     IN  IF absent
           THEN /\ unsafe_reads' = unsafe_reads \cup {"zscore"}
                /\ \/ /\ pc' = "crashed"
                      /\ UNCHANGED << mult_hyp_corr, r1, r2 >>
                   \/ /\ pc' = "pairs"
                      /\ mult_hyp_corr' = compute_mult_hyp_corr([i \in Refs |-> TRUE])
                      /\ r1' = 0
                      /\ r2' = 1
           ELSE /\ pc' = "pairs"
                /\ mult_hyp_corr' = compute_mult_hyp_corr([i \in Refs |-> TRUE])
                /\ r1' = 0
                /\ r2' = 1
                /\ UNCHANGED unsafe_reads
  /\ UNCHANGED << inputs, num_alder_refs, ref_inds, weights, fit_starts,
                  fits_all_starts, fit_test_ind, decay_sig, fits_all_starts_refs,
                  fit_test_ind_refs, has_oneref_curve, r, runs, tests, mixfrac,
                  ld_corr_called, fatal, finished >>

\* PairSelected without the inner loop's test of line 345.
PairSelectedByFirst(x, y) == has_oneref_curve[x]

\* Lines 343 and 345: the pair passes both loops' tests.
PairSelected(x, y) == has_oneref_curve[x] /\ has_oneref_curve[y]

\* Lines 342-345: the pairs the two loops still visit and select when the
\* outer loop is at a and the inner loop at b.
PairsLeft(a, b) ==
  {p \in Refs \X Refs :
     /\ p[1] < p[2]
     /\ p[1] > a \/ (p[1] = a /\ p[2] >= b)
     /\ PairSelected(p[1], p[2])}

\* The first of them in the loops' order.
NextPair(a, b) ==
  CHOOSE p \in PairsLeft(a, b) :
    \A q \in PairsLeft(a, b) : p[1] < q[1] \/ (p[1] = q[1] /\ p[2] <= q[2])

\* Lines 342-368, one execution of the inner loop's body: the 2-ref curve of
\* the next selected pair and its test for admixture, with the correction.
PairTest ==
  /\ pc = "pairs"
  /\ PairsLeft(r1, r2) # {}
  /\ LET p == NextPair(r1, r2)
         call == RunCall(2, << p[1], p[2] >>, subtract_freqs(p[1], p[2]),
                         Max2(fit_starts[p[1]], fit_starts[p[2]]))
         test == TestCall(p[1], p[2], FALSE, mult_hyp_corr.factor)
     IN  /\ weights' = subtract_freqs(p[1], p[2])
         /\ ref_inds' = << p[1], p[2] >>
         /\ runs' = Append(runs, call)
         /\ r1' = p[1]
         /\ r2' = p[2] + 1
         /\ \E res \in RunResults(0) :
              IF CanonicalFitsExist(res.n, res.ind, p[1], p[2])
                THEN /\ tests' = Append(tests, test)
                     /\ UNCHANGED << pc, unsafe_reads >>
                ELSE /\ unsafe_reads' = unsafe_reads \cup {"run_admixture_test"}
                     /\ \/ /\ pc' = "crashed"
                           /\ UNCHANGED tests
                        \/ /\ tests' = Append(tests, test)
                           /\ UNCHANGED pc
  /\ UNCHANGED << inputs, num_alder_refs, fit_starts, fits_all_starts,
                  fit_test_ind, decay_sig, fits_all_starts_refs, fit_test_ind_refs,
                  has_oneref_curve, mult_hyp_corr, r, mixfrac, ld_corr_called,
                  fatal, finished >>

\* Lines 342-369: both loops run out.
PairsDone ==
  /\ pc = "pairs"
  /\ PairsLeft(r1, r2) = {}
  /\ pc' = "done"
  /\ r1' = num_ref_freqs
  /\ r2' = num_ref_freqs
  /\ UNCHANGED << inputs, num_alder_refs, ref_inds, weights, fit_starts,
                  fits_all_starts, fit_test_ind, decay_sig, fits_all_starts_refs,
                  fit_test_ind_refs, has_oneref_curve, mult_hyp_corr, r, runs,
                  tests, mixfrac, ld_corr_called, unsafe_reads, fatal, finished >>

\* --------------------------- specification ----------------------------- \*

Next ==
  \/ CheckMincount
  \/ SetWeights
  \/ FindLdCorrStops
  \/ RunCurve
  \/ AdmixCheck
  \/ RefRun
  \/ CompareCurves
  \/ RunAdmixtureTest
  \/ MixFracBound
  \/ MultiRef
  \/ PreTestSkip
  \/ PreTestRun
  \/ Summary
  \/ PairTest
  \/ PairsDone

Spec == Init /\ [][Next]_vars

\* ------------------------------ properties ----------------------------- \*

ConfigErrors == {FatalMincount, FatalNoRefs, FatalOneRefMincount}

\* The >=3-ref part of main has set up the per-reference state.
InMultiRef == pc \in {"pre_tests", "pairs"} \/ (num_ref_freqs > 2 /\ pc \in {"done", "crashed"})

\* The multiple-hypothesis correction has been computed.
CorrComputed == pc = "pairs" \/ (num_ref_freqs > 2 /\ pc = "done")

\* Pairs of references that both passed the pre-test.
EligiblePairs ==
  {p \in Refs \X Refs : p[1] < p[2] /\ has_oneref_curve[p[1]] /\ has_oneref_curve[p[2]]}

TestPair(j) == << tests[j].r1, tests[j].r2 >>

\* C1: in the >=3-ref case the multiple-hypothesis correction factor is
\* computed from exactly the references that passed the pre-test: the
\* eligibility vector given to compute_mult_hyp_corr is has_oneref_curve.
C1_CorrFromEligibleRefs ==
  CorrComputed => mult_hyp_corr.elig = has_oneref_curve

\* C1, the case: the correction has been computed and a reference is
\* ineligible.
C1_Case ==
  /\ CorrComputed
  /\ \E i \in Refs : ~has_oneref_curve[i]

\* C2: when fewer than 2 chromosomes contribute data the run never aborts
\* for that reason, whatever the reference configuration: it can only end
\* on a configuration error, or completes with the curve computed and the
\* tests reported as untestable.
C2_FewChromsNeverAbort ==
  num_chroms_used < MinJackknifeChroms =>
    /\ pc = "aborted" => fatal \in ConfigErrors
    /\ pc = "done" => Len(runs) >= 1 /\ tests = << >>

\* C3: no single-reference weighted LD curve is computed with mincount < 4:
\* every call of Alder::run with one reference happens with mincount >= 4.
C3_OneRefRunsNeedMincount ==
  \A i \in DOMAIN runs : runs[i].num_refs = 1 => mincount >= MinOneRefMincount

\* C4: main never assumes that a canonical fit exists: no canonical entry
\* of a fit list is read unless the list holds it.
C4_CanonicalFitReadOnlyIfPresent == unsafe_reads = {}

\* C5: a reference whose fit start distance is INFINITY cannot proceed in
\* any configuration: Alder::run is never called with an infinite start
\* distance and no test for admixture involves such a reference.
C5_InfiniteStartCannotProceed ==
  /\ \A i \in DOMAIN runs : runs[i].fit_start # INFINITY
  /\ \A j \in DOMAIN tests :
       fit_starts[tests[j].r1] # INFINITY /\ fit_starts[tests[j].r2] # INFINITY

\* C6 as stated: in the 1-ref case the mixture fraction bound is computed
\* only if the canonical fit of the 1-ref curve is significant (stated for
\* the runs whose canonical fit exists).
C6_BoundOnlyIfSignificant ==
  (mixfrac /\ InBounds(fits_all_starts, fit_test_ind)) => decay_sig

\* C6 as amended: in the 1-ref case the mixture fraction bound is computed
\* in every run that completes, whether or not the canonical fit is
\* significant, and it is computed in no other case.
C6_BoundWithoutSignificanceTest ==
  /\ (pc = "done" /\ num_alder_refs = 1) => mixfrac
  /\ mixfrac => /\ num_alder_refs = 1
                /\ runs = << RunCall(1, << 0 >>, RefFreqs(0), max_element(fit_starts)) >>

\* C6, the case: a 1-ref run completed, its canonical fit exists and is not
\* significant, and the bound was computed.
C6_Case ==
  /\ pc = "done"
  /\ num_alder_refs = 1
  /\ InBounds(fits_all_starts, fit_test_ind)
  /\ ~decay_sig
  /\ mixfrac

\* C7: in the >=3-ref case the 2-ref procedure (2-ref Alder::run, then
\* run_admixture_test with the correction factor and the no-correction flag
\* false) is executed once for every pair r1 < r2 of references that both
\* have has_oneref_curve, and for no other pair; a completed run has made
\* k(k-1)/2 tests for k eligible references.
C7_OneTestPerEligiblePair ==
  InMultiRef =>
    /\ \A j \in DOMAIN tests :
         /\ TestPair(j) \in EligiblePairs
         /\ tests[j].no_correction = FALSE
         /\ tests[j].mult_hyp_corr = mult_hyp_corr.factor
         /\ \A k \in DOMAIN tests : TestPair(k) = TestPair(j) => k = j
         /\ \E i \in DOMAIN runs :
              /\ runs[i].num_refs = 2
              /\ runs[i].ref_inds = TestPair(j)
              /\ runs[i].weights = subtract_freqs(tests[j].r1, tests[j].r2)
    /\ Cardinality({i \in DOMAIN runs : runs[i].num_refs = 2}) =
         Len(tests) + (IF pc = "crashed" /\ "run_admixture_test" \in unsafe_reads
                         THEN 1 ELSE 0)
    /\ pc = "done" =>
         /\ {TestPair(j) : j \in DOMAIN tests} = EligiblePairs
         /\ Len(tests) = NumPairs(has_oneref_curve)

\* C7, the case: a completed >=3-ref run with an ineligible reference and
\* at least one pair tested.
C7_Case ==
  /\ pc = "done"
  /\ num_ref_freqs > 2
  /\ tests # << >>
  /\ \E i \in Refs : ~has_oneref_curve[i]

\* The handlings a completed run can have executed.
SingleRefHandling ==
  /\ Len(runs) = 1
  /\ runs[1].num_refs = 1
  /\ mixfrac
  /\ tests = << >>

TwoRefCurve ==
  /\ Len(runs) >= 1
  /\ runs[1].num_refs = 2
  /\ ~mixfrac
  /\ ~InMultiRef

TwoRefHandling ==
  /\ TwoRefCurve
  /\ tests = << TestCall(0, 1, TRUE, NoCorrection) >>

TwoRefCurveOnly ==
  /\ TwoRefCurve
  /\ Len(runs) = 1
  /\ tests = << >>

MultiRefHandling ==
  /\ InMultiRef
  /\ DOMAIN has_oneref_curve = Refs
  /\ DOMAIN mult_hyp_corr.elig = Refs
  /\ \A i \in Refs : fit_starts[i] # INFINITY =>
       \E k \in DOMAIN runs : runs[k].num_refs = 1 /\ runs[k].ref_inds = << i >>
  /\ \A k \in DOMAIN runs : runs[k].num_refs = 2 => \E j \in DOMAIN tests :
       TestPair(j) = runs[k].ref_inds
  /\ \A j \in DOMAIN tests : tests[j].no_correction = FALSE
  /\ ~mixfrac

HandlingsExecuted ==
  (IF SingleRefHandling THEN {"1-ref"} ELSE {}) \cup
  (IF TwoRefCurve THEN {"2-ref"} ELSE {}) \cup
  (IF MultiRefHandling THEN {"3+-ref"} ELSE {})

\* C8 as stated: a run that does not abort executes exactly one handling,
\* determined by the number of references with genotype data: 1 the 1-ref
\* curve and the mixture fraction bound, 2 the 2-ref curve and the test for
\* admixture with the no-correction flag and factor 1.0, >=3 the pre-tests
\* and pairwise tests, 0 (external weights) a 2-ref-style curve.
C8_RoutedByNumRefs ==
  pc = "done" =>
    /\ Cardinality(HandlingsExecuted) = 1
    /\ num_ref_freqs = 0 => TwoRefCurveOnly
    /\ num_ref_freqs = 1 => SingleRefHandling
    /\ num_ref_freqs = 2 => TwoRefHandling
    /\ num_ref_freqs > 2 => MultiRefHandling

\* C8 as amended: a run that completes executes exactly one handling,
\* determined by the number of references with genotype data, by whether
\* external weights were given and by the number of chromosomes: >=3
\* references the pre-tests and pairwise tests; otherwise, with external
\* weights, one 2-ref-style curve and no test; without them, 1 reference
\* the 1-ref curve and the mixture fraction bound, 2 references the 2-ref
\* curve and, when at least 2 chromosomes are used, the test for admixture
\* with the no-correction flag and factor 1.0.
C8_RoutedByRefsWeightsChroms ==
  pc = "done" =>
    /\ Cardinality(HandlingsExecuted) = 1
    /\ num_ref_freqs > 2 => MultiRefHandling
    /\ (num_ref_freqs <= 2 /\ weightname) =>
         TwoRefCurveOnly /\ runs[1].weights = ExternalWeights
    /\ (num_ref_freqs = 1 /\ ~weightname) => SingleRefHandling
    /\ (num_ref_freqs = 2 /\ ~weightname) =>
         /\ runs[1].weights = subtract_freqs(0, 1)
         /\ IF num_chroms_used >= MinJackknifeChroms
              THEN TwoRefHandling /\ Len(runs) = 3
              ELSE TwoRefCurveOnly /\ finished = FinishedChroms

\* C8, the case: a completed run with one reference and external weights,
\* handled as a 2-ref-style curve.
C8_Case ==
  /\ pc = "done"
  /\ num_ref_freqs = 1
  /\ weightname
  /\ TwoRefCurveOnly

\* C9: fatal configuration errors abort the run before any statistic is
\* computed: with mincount above the number of mixed individuals, or with
\* no reference population and no external weights, the run ends at that
\* check and find_ld_corr_stops, Alder::run and the tests are never reached.
C9_FatalConfigAbortsFirst ==
  /\ mincount > num_mixed_indivs =>
       /\ pc \in {"check_mincount", "aborted"}
       /\ pc = "aborted" => fatal = FatalMincount
  /\ (mincount <= num_mixed_indivs /\ num_ref_freqs = 0 /\ ~weightname) =>
       /\ pc \in {"check_mincount", "set_weights", "aborted"}
       /\ pc = "aborted" => fatal = FatalNoRefs
  /\ (pc = "aborted" /\ fatal \in {FatalMincount, FatalNoRefs}) =>
       /\ ~ld_corr_called
       /\ fit_starts = << >>
       /\ runs = << >>
       /\ tests = << >>
       /\ ~mixfrac

\* C9, the case: the run was aborted for want of reference data.
C9_Case ==
  /\ pc = "aborted"
  /\ fatal = FatalNoRefs
  /\ num_ref_freqs = 0
  /\ ~weightname

\* C10: with external weights, whatever the number of references with
\* genotype data, every curve is computed from the external weights and no
\* test for admixture is run.
C10_ExternalWeightsAlwaysUsed ==
  weightname =>
    /\ \A i \in DOMAIN runs : runs[i].weights = ExternalWeights
    /\ tests = << >>

====
